---- MODULE Spec2Model ----
(***************************************************************************)
(* png2lvgl: conversion of a decoded PNG into an LVGL C array.             *)
(* The model follows src/src/main.rs (run, detect_format, validate_format, *)
(* count_unique_colors, format_name, generate_c, write_header,             *)
(* write_indexed, write_true_color, write_alpha, write_data_array,         *)
(* write_descriptor) and src/src/validation.rs.                            *)
(***************************************************************************)
EXTENDS Integers, Sequences, FiniteSets, TLC

VARIABLES
  pc,         \* position inside run()
  args,       \* the parsed command line (Args)
  img,        \* the decoded image (DynamicImage), NoImg before image::open
  format,     \* the resolved ColorFormat of run(), "none" before line 150
  fmt_check,  \* what validate_format returned at line 155 ("none" before)
  file,       \* the output path on disk: unknown / absent / old / new / removed
  sink,       \* what the writer (file or stdout) has received, in order
  prov,       \* for a packed data segment: the rows whose pixels each byte holds
  passed,     \* the validations of run() that have succeeded so far, in order
  result      \* what run() returned: "running", "Ok", an error, or "panic"

vars == <<pc, args, img, format, fmt_check, file, sink, prov, passed, result>>

(***************************************************************************)
(* Bounds of the model.                                                    *)
(***************************************************************************)
\* every RGBA image of at most MaxPixels pixels over the small pixel set
MaxPixels == 3
\* patterned gray images: every width 1..MaxWide and height 1..MaxRows
MaxWide == 9
MaxRows == 2
\* the largest number of distinct colours of a one-row colour strip
MaxColours == 258

(***************************************************************************)
(* Machine arithmetic of the Rust integer operators used by the encoders.  *)
(***************************************************************************)
Pow2(n) == 2 ^ n

\* x >> n
Shr(x, n) == x \div Pow2(n)

\* x << n on u8 (n < 8): the bits shifted out are lost
Shl8(x, n) == (x * Pow2(n)) % 256

\* x << n on u16 (n < 16)
Shl16(x, n) == (x * Pow2(n)) % 65536

RECURSIVE BitAnd(_, _)
BitAnd(x, y) ==
  IF x = 0 \/ y = 0 THEN 0
  ELSE (x % 2) * (y % 2) + 2 * BitAnd(x \div 2, y \div 2)

RECURSIVE BitOr(_, _)
BitOr(x, y) ==
  IF x = 0 THEN y
  ELSE IF y = 0 THEN x
  ELSE (IF x % 2 = 1 \/ y % 2 = 1 THEN 1 ELSE 0) + 2 * BitOr(x \div 2, y \div 2)

(***************************************************************************)
(* Images.  An image is its colour type, its dimensions and its pixels as  *)
(* img.to_rgba8() yields them, row-major.                                   *)
(***************************************************************************)
Px(r, g, b, a) == [r |-> r, g |-> g, b |-> b, a |-> a]

ColorTypes == {"L8", "La8", "Rgb8", "Rgba8"}

\* ColorType::has_alpha
HasAlpha(ct) == ct \in {"La8", "Rgba8"}

\* ColorType::has_color
HasColor(ct) == ct \in {"Rgb8", "Rgba8"}

\* ColorType::bits_per_pixel
BitsPerPixel(ct) ==
  CASE ct = "L8" -> 8
    [] ct = "La8" -> 16
    [] ct = "Rgb8" -> 24
    [] ct = "Rgba8" -> 32

\* img.to_luma8(): the luma of an RGB(A) pixel; alpha is dropped
ToLuma(p) == (2126 * p.r + 7152 * p.g + 722 * p.b) \div 10000

NoImg == [ct |-> "none", w |-> 0, h |-> 0, px |-> <<>>]

SmallPixels == {Px(255, 0, 0, 255), Px(255, 0, 0, 128), Px(0, 255, 0, 255)}

SmallImages ==
  UNION { { [ct |-> "Rgba8", w |-> d[1], h |-> d[2], px |-> f] :
              f \in [1..(d[1] * d[2]) -> SmallPixels] } :
          d \in {e \in (1..MaxPixels) \X (1..MaxPixels) : e[1] * e[2] <= MaxPixels} }

\* the i-th colour of a table of pairwise distinct colours (i < 65536) in which
\* every channel takes every 8-bit value
Colour(i) ==
  Px((i * 83) % 256, (i * 5 + i \div 256) % 256, (i * 211) % 256, 255)

\* a patterned pixel: alpha varies where the colour type has alpha, the
\* channels are equal where it has no colour
PatternPixel(ct, i) ==
  LET c == Colour(i)
      a == IF HasAlpha(ct) THEN (i * 97 + 255) % 256 ELSE 255
  IN  IF HasColor(ct) THEN Px(c.r, c.g, c.b, a) ELSE Px(c.r, c.r, c.r, a)

WideImages ==
  { [ct |-> ct, w |-> w, h |-> h, px |-> [i \in 1..(w * h) |-> PatternPixel(ct, i - 1)]] :
      ct \in {"L8", "La8"}, w \in 1..MaxWide, h \in 1..MaxRows }

\* one-row strips of n pairwise distinct colours
StripImages ==
  { [ct |-> "Rgb8", w |-> n, h |-> 1, px |-> [i \in 1..n |-> Colour(i - 1)]] :
      n \in {16, 17, 256, 257, MaxColours} }

\* images the decoder can return but whose pixels are never read: too large
HugeImages ==
  { [ct |-> "Rgb8", w |-> 8193, h |-> 1, px |-> <<>>],
    [ct |-> "Rgb8", w |-> 1, h |-> 8193, px |-> <<>>] }

\* a single white pixel, opaque and fully transparent
WhiteImages ==
  { [ct |-> "Rgba8", w |-> 1, h |-> 1, px |-> <<Px(255, 255, 255, a)>>] : a \in {255, 0} }

Images == SmallImages \cup WideImages \cup StripImages \cup HugeImages \cup WhiteImages

(***************************************************************************)
(* Results and errors (src/src/error.rs).  Every result has the same       *)
(* shape: kind, two numbers and a format name.                             *)
(***************************************************************************)
Res(kind, n, m, s) == [kind |-> kind, n |-> n, m |-> m, s |-> s]

Running == Res("running", 0, 0, "")
Ok == Res("Ok", 0, 0, "")
None == Res("none", 0, 0, "")
Panic == Res("panic", 0, 0, "")

Err(kind) == Res(kind, 0, 0, "")

TooManyColors(colors, max_colors, name) == Res("TooManyColors", colors, max_colors, name)

InvalidBitDepth(depth, name) == Res("InvalidBitDepth", depth, 0, name)

NotImplemented(name) == Res("NotImplemented", 0, 0, name)

(***************************************************************************)
(* src/src/validation.rs                                                   *)
(***************************************************************************)
MAX_WIDTH == 8192
MAX_HEIGHT == 8192
MIN_WIDTH == 1
MIN_HEIGHT == 1
MAX_FILE_SIZE == 104857600

\* the input files run() can be pointed at
InputFiles ==
  [exists : BOOLEAN, readable : BOOLEAN, size : {8, MAX_FILE_SIZE + 1}, png_header : BOOLEAN]

validate_input_file(f) ==
  IF ~f.exists THEN Err("FileNotFound")
  ELSE IF ~f.readable THEN Err("FileNotReadable")
  ELSE IF f.size > MAX_FILE_SIZE THEN Err("FileSizeTooLarge")
  ELSE IF ~f.png_header THEN Err("InvalidPngHeader")
  ELSE Ok

\* a variant of validate_dimensions without the upper limits
validate_dimensions_min_only(width, height) ==
  IF width < MIN_WIDTH \/ height < MIN_HEIGHT THEN Err("DimensionsTooSmall") ELSE Ok

validate_dimensions(width, height) ==
  IF width < MIN_WIDTH \/ height < MIN_HEIGHT THEN Err("DimensionsTooSmall")
  ELSE IF width > MAX_WIDTH \/ height > MAX_HEIGHT THEN Err("DimensionsTooLarge")
  ELSE Ok

\* the output paths run() can be pointed at
OutputPaths ==
  [exists : BOOLEAN, parent_empty : BOOLEAN, parent_exists : BOOLEAN, name_ok : BOOLEAN]

validate_output_path(p, overwrite) ==
  IF p.exists /\ ~overwrite THEN Err("OutputExists")
  ELSE IF p.parent_empty THEN Ok
  ELSE IF ~p.parent_exists THEN Err("OutputNotWritable")
  ELSE IF ~p.name_ok THEN Err("InvalidOutputFilename")
  ELSE Ok

(***************************************************************************)
(* Formats (src/src/main.rs)                                               *)
(***************************************************************************)
IndexedFormats == {"Indexed1", "Indexed2", "Indexed4", "Indexed8"}
AlphaFormats == {"Alpha1", "Alpha2", "Alpha4", "Alpha8"}
TrueColorFormats == {"TrueColor", "TrueColorAlpha"}

ColorFormat ==
  {"Auto", "TrueColorChroma"} \cup TrueColorFormats \cup IndexedFormats \cup AlphaFormats

\* the bit depth the match arms of validate_format and generate_c give a format
BitDepth(f) ==
  CASE f \in {"Indexed1", "Alpha1"} -> 1
    [] f \in {"Indexed2", "Alpha2"} -> 2
    [] f \in {"Indexed4", "Alpha4"} -> 4
    [] f \in {"Indexed8", "Alpha8"} -> 8

\* Args.  Its fields output and overwrite are each read once (lines 108-123
\* and 129) and are drawn where run reads them
NoArgs == [format |-> "none", stdout |-> FALSE, lvgl_v8 |-> FALSE, big_endian |-> FALSE]

Args == [format : ColorFormat, stdout : BOOLEAN, lvgl_v8 : BOOLEAN, big_endian : BOOLEAN]

lvgl_version(a) == IF a.lvgl_v8 THEN "V8" ELSE "V9"

\* a variant of detect_format that looks at has_color instead of has_alpha
detect_format_by_color(i) ==
  IF HasColor(i.ct) THEN "TrueColorAlpha" ELSE "TrueColor"

detect_format(i) ==
  IF HasAlpha(i.ct) THEN "TrueColorAlpha" ELSE "TrueColor"

\* HashSet::insert (the set is rebuilt, so that it is held as an enumerated set)
Insert(set, x) == {e : e \in set \cup {x}}

\* a variant of CountStep that inserts the whole RGBA pixel
CountStepWithAlpha(st, p) ==
  IF st.returned THEN st
  ELSE LET c == Insert(st.colors, <<p.r, p.g, p.b, p.a>>)
       IN  [colors |-> c, returned |-> Cardinality(c) > 256]

\* one iteration of the loop of count_unique_colors on pixel p: st is the
\* HashSet and whether the function has returned
CountStep(st, p) ==
  IF st.returned THEN st
  ELSE LET c == Insert(st.colors, <<p.r, p.g, p.b>>)
       IN  [colors |-> c, returned |-> Cardinality(c) > 256]

\* the iterations for pixels lo..hi, in order: those up to mid, and unless
\* the function returned there, those after mid
RECURSIVE CountLoop(_, _, _, _)
CountLoop(st, px, lo, hi) ==
  IF lo > hi THEN st
  ELSE IF lo = hi THEN CountStep(st, px[lo])
  ELSE LET mid == (lo + hi) \div 2
           left == CountLoop(st, px, lo, mid)
       IN  IF left.returned THEN left ELSE CountLoop(left, px, mid + 1, hi)

\* both returns of count_unique_colors hand back colors.len()
count_unique_colors(i) ==
  Cardinality(CountLoop([colors |-> {}, returned |-> FALSE], i.px, 1, Len(i.px)).colors)

validate_format(i, f) ==
  IF f \in IndexedFormats THEN
    LET max_colors == Pow2(BitDepth(f))
        unique_colors == count_unique_colors(i)
    IN  IF unique_colors > max_colors
        THEN TooManyColors(unique_colors, max_colors, f)
        ELSE Ok
  ELSE IF f \in AlphaFormats THEN
    LET bit_depth == BitDepth(f)
        img_bits == BitsPerPixel(i.ct)
    IN  IF bit_depth < 8 /\ img_bits > bit_depth * 4
        THEN InvalidBitDepth(bit_depth, f)
        ELSE Ok
  ELSE Ok

format_name(f, v) ==
  IF v = "V8" THEN
    CASE f = "Auto" -> "auto"
      [] f = "TrueColor" -> "LV_IMG_CF_TRUE_COLOR"
      [] f = "TrueColorAlpha" -> "LV_IMG_CF_TRUE_COLOR_ALPHA"
      [] f = "TrueColorChroma" -> "LV_IMG_CF_TRUE_COLOR_CHROMA_KEYED"
      [] f = "Indexed1" -> "LV_IMG_CF_INDEXED_1BIT"
      [] f = "Indexed2" -> "LV_IMG_CF_INDEXED_2BIT"
      [] f = "Indexed4" -> "LV_IMG_CF_INDEXED_4BIT"
      [] f = "Indexed8" -> "LV_IMG_CF_INDEXED_8BIT"
      [] f = "Alpha1" -> "LV_IMG_CF_ALPHA_1BIT"
      [] f = "Alpha2" -> "LV_IMG_CF_ALPHA_2BIT"
      [] f = "Alpha4" -> "LV_IMG_CF_ALPHA_4BIT"
      [] f = "Alpha8" -> "LV_IMG_CF_ALPHA_8BIT"
  ELSE
    CASE f = "Auto" -> "auto"
      [] f = "TrueColor" -> "LV_COLOR_FORMAT_RGB565"
      [] f = "TrueColorAlpha" -> "LV_COLOR_FORMAT_RGB565A8"
      [] f = "TrueColorChroma" -> "LV_COLOR_FORMAT_RGB565_CHROMA_KEYED"
      [] f = "Indexed1" -> "LV_COLOR_FORMAT_I1"
      [] f = "Indexed2" -> "LV_COLOR_FORMAT_I2"
      [] f = "Indexed4" -> "LV_COLOR_FORMAT_I4"
      [] f = "Indexed8" -> "LV_COLOR_FORMAT_I8"
      [] f = "Alpha1" -> "LV_COLOR_FORMAT_A1"
      [] f = "Alpha2" -> "LV_COLOR_FORMAT_A2"
      [] f = "Alpha4" -> "LV_COLOR_FORMAT_A4"
      [] f = "Alpha8" -> "LV_COLOR_FORMAT_A8"

(***************************************************************************)
(* What the writer receives: a sequence of lines.  A line is a record of   *)
(* one shape: its kind, the byte literals on it, and for the descriptor    *)
(* its fields.                                                             *)
(***************************************************************************)
Line(k, b) == [k |-> k, b |-> b, cf |-> "", w |-> 0, h |-> 0, size |-> 0]

\* write_descriptor: the record with .header.cf, .header.w, .header.h, .data_size
write_descriptor(w, h, cf, size) ==
  <<[k |-> "desc", b |-> <<>>, cf |-> cf, w |-> w, h |-> h, size |-> size]>>

\* write_header: the byte-order comment of the RGB565 formats, then the
\* include preamble
write_header(f, big_endian) ==
  (IF f \in TrueColorFormats
   THEN <<[Line("comment", <<>>) EXCEPT !.cf = IF big_endian THEN "big-endian" ELSE "little-endian"]>>
   ELSE <<>>)
  \o <<Line("preamble", <<>>)>>

\* data.chunks(16)
RECURSIVE Chunks(_)
Chunks(data) ==
  IF Len(data) = 0 THEN <<>>
  ELSE IF Len(data) <= 16 THEN <<data>>
  ELSE <<SubSeq(data, 1, 16)>> \o Chunks(SubSeq(data, 17, Len(data)))

\* write_data_array: one line of byte literals per chunk of 16, then a
\* newline (which is an empty line when there was no chunk)
write_data_array(data) ==
  IF Len(data) = 0 THEN <<Line("blank", <<>>)>>
  ELSE LET c == Chunks(data) IN [i \in 1..Len(c) |-> Line("data", c[i])]

(***************************************************************************)
(* write_indexed                                                           *)
(***************************************************************************)
\* a variant of PaletteValue that divides by the palette size
PaletteValueBySize(i, palette_size) == ((i * 255) \div palette_size) % 256

\* let v = (i * 255 / (palette_size - 1)) as u8
PaletteValue(i, palette_size) == ((i * 255) \div (palette_size - 1)) % 256

\* the palette lines: 0x{v}, 0x{v}, 0x{v}, 0xff for i in 0..palette_size
PaletteLines(palette_size) ==
  [k \in 1..palette_size |->
     LET v == PaletteValue(k - 1, palette_size)
     IN  Line("palette", <<v, v, v, 255>>)]

\* (1 << bpp) - 1 on u8 shifts by the full width when bpp = 8: an
\* arithmetic overflow
MaskOverflows(bpp) == bpp >= 8

\* (1 << bpp) - 1 on u8 where the build does not check overflow: the shift
\* amount is taken modulo the width
WrappingMask(bpp) == Shl8(1, bpp % 8) - 1

\* the state of the packing loop: the byte being filled, the shift of the
\* next sample, the bytes pushed, and (for the record) the rows whose
\* pixels went into each byte
PackInit == [byte |-> 0, shift |-> 0, data |-> <<>>, rows |-> {}, prov |-> <<>>]

\* data.push(byte)
Push(st) ==
  [st EXCEPT !.data = Append(st.data, st.byte), !.prov = Append(st.prov, st.rows)]

\* let mut byte = 0u8; let mut shift = 8 - bpp;
RowStart(st, bpp) == [st EXCEPT !.byte = 0, !.shift = 8 - bpp, !.rows = {}]

\* the body of the loop over x, for the pixel of luma `pixel` in row y
PackPixel(st, pixel, y, bpp, mask) ==
  LET index == BitAnd(Shr(pixel, 8 - bpp), mask)
      s1 == [st EXCEPT !.byte = BitOr(st.byte, Shl8(index, st.shift)),
                       !.rows = st.rows \cup {y}]
  IN  IF s1.shift = 0
      THEN [Push(s1) EXCEPT !.byte = 0, !.shift = 8 - bpp, !.rows = {}]
      ELSE [s1 EXCEPT !.shift = s1.shift - bpp]

\* a variant of RowEnd that does not flush the partial byte of a row
RowEndNoFlush(st, bpp) == st

\* if shift != 8 - bpp { data.push(byte); }
RowEnd(st, bpp) == IF st.shift # 8 - bpp THEN Push(st) ELSE st

\* the loop over x for the pixels lo..hi of row y, in order: those up to
\* mid, then those after mid (the test on left only makes the evaluation
\* finish the first half before it starts the second)
RECURSIVE PackRow(_, _, _, _, _, _, _)
PackRow(st, i, lo, hi, y, bpp, mask) ==
  IF lo > hi THEN st
  ELSE IF lo = hi THEN PackPixel(st, ToLuma(i.px[y * i.w + lo + 1]), y, bpp, mask)
  ELSE LET mid == (lo + hi) \div 2
           left == PackRow(st, i, lo, mid, y, bpp, mask)
       IN  IF left.shift >= 0 THEN PackRow(left, i, mid + 1, hi, y, bpp, mask) ELSE left

\* for y in y..h
RECURSIVE PackRows(_, _, _, _, _)
PackRows(st, i, y, bpp, mask) ==
  IF y >= i.h THEN st
  ELSE PackRows(RowEnd(PackRow(RowStart(st, bpp), i, 0, i.w - 1, y, bpp, mask), bpp),
                i, y + 1, bpp, mask)

\* a variant of IndexedTotalSize that counts palette entries, not bytes
IndexedTotalSizeEntries(palette_size, len) == palette_size + len

\* let total_size = (palette_size * 4) + data.len()
IndexedTotalSize(palette_size, len) == (palette_size * 4) + len

ArrayOpen == <<Line("open", <<>>)>>
ArrayClose == <<Line("close", <<>>)>>

\* what write_indexed writes up to the computation of the mask
IndexedPrefix(bpp) ==
  ArrayOpen \o PaletteLines(Pow2(bpp)) \o <<Line("blank", <<>>)>>

\* write_indexed with the mask computed: [lines, prov]
write_indexed(i, format_const, bpp, mask) ==
  LET st == PackRows(PackInit, i, 0, bpp, mask)
  IN  [lines |-> IndexedPrefix(bpp) \o write_data_array(st.data) \o ArrayClose
                   \o write_descriptor(i.w, i.h, format_const,
                                       IndexedTotalSize(Pow2(bpp), Len(st.data))),
       prov |-> st.prov]

(***************************************************************************)
(* write_alpha                                                             *)
(***************************************************************************)
\* a variant of LumaBytes that takes the alpha channel of the source
LumaBytesFromAlpha(i) == [k \in 1..Len(i.px) |-> i.px[k].a]

\* gray.pixels().map(|p| p[0]).collect()
LumaBytes(i) == [k \in 1..Len(i.px) |-> ToLuma(i.px[k])]

write_alpha(i, format_const, bpp) ==
  LET st == IF bpp = 8
            THEN [PackInit EXCEPT !.data = LumaBytes(i)]
            ELSE PackRows(PackInit, i, 0, bpp, Shl8(1, bpp) - 1)
  IN  [lines |-> ArrayOpen \o write_data_array(st.data) \o ArrayClose
                   \o write_descriptor(i.w, i.h, format_const, Len(st.data)),
       prov |-> st.prov]

(***************************************************************************)
(* write_true_color                                                        *)
(***************************************************************************)
\* a variant of Rgb565 that masks red with 0xF0
Rgb565NarrowRed(p) ==
  BitOr(BitOr(Shl16(BitAnd(p.r, 240), 8), Shl16(BitAnd(p.g, 252), 3)), Shr(p.b, 3))

\* ((r as u16 & 0xF8) << 8) | ((g as u16 & 0xFC) << 3) | (b as u16 >> 3)
Rgb565(p) ==
  BitOr(BitOr(Shl16(BitAnd(p.r, 248), 8), Shl16(BitAnd(p.g, 252), 3)), Shr(p.b, 3))

\* a variant of Rgb565Bytes with the two byte orders exchanged
Rgb565BytesSwapped(p, big_endian) ==
  LET v == Rgb565(p)
  IN  IF big_endian
      THEN <<BitAnd(v, 255) % 256, Shr(v, 8) % 256>>
      ELSE <<Shr(v, 8) % 256, BitAnd(v, 255) % 256>>

\* the two bytes pushed for one pixel
Rgb565Bytes(p, big_endian) ==
  LET v == Rgb565(p)
  IN  IF big_endian
      THEN <<Shr(v, 8) % 256, BitAnd(v, 255) % 256>>
      ELSE <<BitAnd(v, 255) % 256, Shr(v, 8) % 256>>

\* for pixel in rgba.pixels(): what pixels lo..hi push to rgb_data, in order
RECURSIVE RgbData(_, _, _, _)
RgbData(px, lo, hi, big_endian) ==
  IF lo > hi THEN <<>>
  ELSE IF lo = hi THEN Rgb565Bytes(px[lo], big_endian)
  ELSE LET mid == (lo + hi) \div 2
       IN  RgbData(px, lo, mid, big_endian) \o RgbData(px, mid + 1, hi, big_endian)

\* alpha_data
\* a variant of AlphaData that writes every pixel as opaque
AlphaDataOpaque(px, alpha) == IF alpha THEN [k \in 1..Len(px) |-> 255] ELSE <<>>

AlphaData(px, alpha) == IF alpha THEN [k \in 1..Len(px) |-> px[k].a] ELSE <<>>

write_true_color(i, alpha, format_const, big_endian) ==
  LET rgb_data == RgbData(i.px, 1, Len(i.px), big_endian)
      alpha_data == AlphaData(i.px, alpha)
  IN  [lines |-> ArrayOpen \o write_data_array(rgb_data)
                   \o (IF alpha
                       THEN <<Line("blank", <<>>)>> \o write_data_array(alpha_data)
                       ELSE <<>>)
                   \o ArrayClose
                   \o write_descriptor(i.w, i.h, format_const,
                                       Len(rgb_data) + Len(alpha_data)),
       prov |-> <<>>]

(***************************************************************************)
(* run(), one action per step of it.                                       *)
(***************************************************************************)
Init ==
  /\ pc = "parse"
  /\ args = NoArgs
  /\ img = NoImg
  /\ format = "none"
  /\ fmt_check = None
  /\ file = "unknown"
  /\ sink = <<>>
  /\ prov = <<>>
  /\ passed = <<>>
  /\ result = Running

\* run returns r
Return(r) == pc' = "done" /\ result' = r

\* Args::parse() and the --stdout / --output conflict
Parse ==
  /\ pc = "parse"
  /\ \E a \in Args, output_given \in BOOLEAN :
       /\ args' = a
       /\ IF a.stdout /\ output_given
          THEN Return(Err("Config"))
          ELSE pc' = "validate_input" /\ result' = result
  /\ UNCHANGED <<img, format, fmt_check, file, sink, prov, passed>>

\* validation::validate_input_file(&args.input)
ValidateInput ==
  /\ pc = "validate_input"
  /\ \E f \in InputFiles :
       LET r == validate_input_file(f)
       IN  IF r # Ok
           THEN Return(r) /\ passed' = passed
           ELSE pc' = "validate_output" /\ result' = result /\ passed' = Append(passed, "input")
  /\ UNCHANGED <<args, img, format, fmt_check, file, sink, prov>>

\* the output path and validation::validate_output_path(path, args.overwrite)
ValidateOutput ==
  /\ pc = "validate_output"
  /\ IF args.stdout
     THEN pc' = "load" /\ UNCHANGED <<file, passed, result>>
     ELSE \E p \in OutputPaths, overwrite \in BOOLEAN :
            LET r == validate_output_path(p, overwrite)
            IN  /\ file' = IF p.exists THEN "old" ELSE "absent"
                /\ IF r # Ok
                   THEN Return(r) /\ passed' = passed
                   ELSE pc' = "load" /\ result' = result /\ passed' = Append(passed, "output")
  /\ UNCHANGED <<args, img, format, fmt_check, sink, prov>>

\* image::open(&args.input)
LoadImage ==
  /\ pc = "load"
  /\ \/ \E i \in Images : img' = i /\ pc' = "dimensions" /\ result' = result
     \/ img' = img /\ Return(Err("Image"))
  /\ UNCHANGED <<args, format, fmt_check, file, sink, prov, passed>>

\* validation::validate_dimensions(w, h)
ValidateDimensions ==
  /\ pc = "dimensions"
  /\ LET r == validate_dimensions(img.w, img.h)
     IN  IF r # Ok
         THEN Return(r) /\ passed' = passed
         ELSE pc' = "format" /\ result' = result /\ passed' = Append(passed, "dimensions")
  /\ UNCHANGED <<args, img, format, fmt_check, file, sink, prov>>

\* let format = match &args.format { Auto => detect_format(&img), f => f.clone() }
\* a variant of ResolvedFormat that hands the requested format on as it is
ResolvedFormatKeepAuto(a, i) == a.format

ResolvedFormat(a, i) == IF a.format = "Auto" THEN detect_format(i) ELSE a.format

ResolveFormat ==
  /\ pc = "format"
  /\ format' = ResolvedFormat(args, img)
  /\ pc' = "validate_format"
  /\ UNCHANGED <<args, img, fmt_check, file, sink, prov, result, passed>>

\* what run does with the result r of validate_format: it logs a warning
\* and goes on
AfterFormatCheck(r) == pc' = "open" /\ result' = result

\* if let Err(e) = validate_format(&img, &format) { warn!(...) }
ValidateFormat ==
  /\ pc = "validate_format"
  /\ fmt_check' = validate_format(img, format)
  /\ AfterFormatCheck(fmt_check')
  /\ UNCHANGED <<args, img, format, file, sink, prov, passed>>

\* std::io::stdout().lock(), or File::create(output_path)
OpenSink ==
  /\ pc = "open"
  /\ IF args.stdout
     THEN pc' = "header" /\ UNCHANGED <<file, result>>
     ELSE \/ file' = "new" /\ pc' = "header" /\ result' = result
          \/ file' = file /\ Return(Err("Io"))
  /\ UNCHANGED <<args, img, format, fmt_check, sink, prov, passed>>

\* generate_c: write_header(writer, var_name, format, big_endian)?
WriteHeader ==
  /\ pc = "header"
  /\ sink' = sink \o write_header(format, args.big_endian)
  /\ pc' = "body"
  /\ UNCHANGED <<args, img, format, fmt_check, file, prov, result, passed>>

\* generate_c returns Ok(()) and run returns Ok(()) after it
Emitted(out) ==
  /\ sink' = sink \o out.lines
  /\ prov' = out.prov
  /\ Return(Ok)

\* generate_c: the Indexed1/2/4/8 arms.  For bpp = 8 the mask overflows:
\* a build that checks overflow panics there, one that does not wraps
WriteIndexed ==
  /\ pc = "body"
  /\ format \in IndexedFormats
  /\ LET bpp == BitDepth(format)
         cf == format_name(format, lvgl_version(args))
     IN  IF MaskOverflows(bpp)
         THEN \/ /\ sink' = sink \o IndexedPrefix(bpp)
                 /\ prov' = prov
                 /\ Return(Panic)
              \/ Emitted(write_indexed(img, cf, bpp, WrappingMask(bpp)))
         ELSE Emitted(write_indexed(img, cf, bpp, Shl8(1, bpp) - 1))
  /\ UNCHANGED <<args, img, format, fmt_check, file, passed>>

\* generate_c: the Alpha1/2/4/8 arms
WriteAlpha ==
  /\ pc = "body"
  /\ format \in AlphaFormats
  /\ Emitted(write_alpha(img, format_name(format, lvgl_version(args)), BitDepth(format)))
  /\ UNCHANGED <<args, img, format, fmt_check, file, passed>>

\* generate_c: the TrueColor and TrueColorAlpha arms
WriteTrueColor ==
  /\ pc = "body"
  /\ format \in TrueColorFormats
  /\ Emitted(write_true_color(img, format = "TrueColorAlpha",
                              format_name(format, lvgl_version(args)), args.big_endian))
  /\ UNCHANGED <<args, img, format, fmt_check, file, passed>>

\* generate_c: the TrueColorChroma arm returns NotImplemented, the Auto arm
\* is unreachable!()
WriteUnsupported ==
  /\ pc = "body"
  /\ format \in {"TrueColorChroma", "Auto"}
  /\ IF format = "Auto"
     THEN Return(Panic)
     ELSE pc' = "failed" /\ result' = NotImplemented("TrueColorChroma")
  /\ UNCHANGED <<args, img, format, fmt_check, file, sink, prov, passed>>

\* a write of an encoder to the sink fails (here the one after the array's
\* opening line): the `?` hands the I/O error back through generate_c
WriteFails ==
  /\ pc = "body"
  /\ format \in TrueColorFormats \cup IndexedFormats \cup AlphaFormats
  /\ sink' = sink \o ArrayOpen
  /\ pc' = "failed"
  /\ result' = Err("Io")
  /\ UNCHANGED <<args, img, format, fmt_check, file, prov, passed>>

\* if let Err(e) = generate_c(...): in file mode remove_file(output_path);
\* return Err(e)
GenerateFailed ==
  /\ pc = "failed"
  /\ file' = IF args.stdout THEN file ELSE "removed"
  /\ pc' = "done"
  /\ UNCHANGED <<args, img, format, fmt_check, sink, prov, result, passed>>

Next ==
  \/ Parse
  \/ ValidateInput
  \/ ValidateOutput
  \/ LoadImage
  \/ ValidateDimensions
  \/ ResolveFormat
  \/ ValidateFormat
  \/ OpenSink
  \/ WriteHeader
  \/ WriteIndexed
  \/ WriteAlpha
  \/ WriteTrueColor
  \/ WriteUnsupported
  \/ WriteFails
  \/ GenerateFailed

Spec == Init /\ [][Next]_vars

(***************************************************************************)
(* Reading the output back: what the claims are stated about.              *)
(***************************************************************************)
IsArrayLine(l) == l.k \in {"palette", "data"}
IsDataLine(l) == l.k = "data"
IsPaletteLine(l) == l.k = "palette"
IsDescLine(l) == l.k = "desc"

\* the byte literals of lines lo..hi, in order
RECURSIVE Flatten(_, _, _)
Flatten(lines, lo, hi) ==
  IF lo > hi THEN <<>>
  ELSE IF lo = hi THEN lines[lo].b
  ELSE LET mid == (lo + hi) \div 2
       IN  Flatten(lines, lo, mid) \o Flatten(lines, mid + 1, hi)

BytesOf(lines) == Flatten(lines, 1, Len(lines))

\* every byte literal written into the <name>_map array
ArrayBytes == BytesOf(SelectSeq(sink, IsArrayLine))

\* the byte literals written by write_data_array
DataBytes == BytesOf(SelectSeq(sink, IsDataLine))

PaletteOut == SelectSeq(sink, IsPaletteLine)

DescOut == SelectSeq(sink, IsDescLine)

\* run has returned Ok: the whole output was written
Finished == pc = "done" /\ result = Ok

AllOpaque == \A k \in 1..Len(img.px) : img.px[k].a = 255

\* the number of distinct RGB triples of the image
DistinctRGB == Cardinality({<<img.px[k].r, img.px[k].g, img.px[k].b>> : k \in 1..Len(img.px)})

\* bytes a row of w samples of b bits needs: ceil(w * b / 8)
RowBytes(w, b) == (w * b + 7) \div 8

RECURSIVE SumTo(_, _)
SumTo(f, n) == IF n = 0 THEN 0 ELSE f[n] + SumTo(f, n - 1)

\* byte j (from 0) of row y (from 0) when each sample is the top b bits of
\* the luma and the samples are packed MSB-first
ExpectedByte(y, j, b) ==
  LET per == 8 \div b
      term == [k \in 1..per |->
                 LET x == j * per + (k - 1)
                 IN  IF x < img.w
                     THEN (ToLuma(img.px[y * img.w + x + 1]) \div Pow2(8 - b)) * Pow2(8 - b * k)
                     ELSE 0]
  IN  SumTo(term, per)

ExpectedPacked(b) ==
  LET rb == RowBytes(img.w, b)
  IN  [n \in 1..(img.h * rb) |-> ExpectedByte((n - 1) \div rb, (n - 1) % rb, b)]

\* n / d rounded to the nearest integer
Round(n, d) == (2 * n + d) \div (2 * d)

\* (r >> 3) << 11 | (g >> 2) << 5 | (b >> 3), its fields being disjoint
Field565(p) == (p.r \div 8) * 2048 + (p.g \div 4) * 32 + (p.b \div 8)

\* the 16-bit value of the k-th byte pair of the array, read in the byte order asked for
Pair(k) ==
  LET b1 == ArrayBytes[2 * k - 1]
      b2 == ArrayBytes[2 * k]
  IN  IF args.big_endian THEN b1 * 256 + b2 ELSE b2 * 256 + b1

\* the pair re-expanded to 8-bit channels
Decoded(k) ==
  LET v == Pair(k)
  IN  [r |-> (v \div 2048) * 8, g |-> ((v \div 32) % 64) * 4, b |-> (v % 32) * 8]

Abs(x) == IF x < 0 THEN -x ELSE x

TrueColorDone == Finished /\ format \in TrueColorFormats

(***************************************************************************)
(* The claims.                                                             *)
(***************************************************************************)

\* C1: the data_size written by write_descriptor equals the number of byte
\* literals written into the <name>_map array (palette plus packed pixels,
\* or RGB565 segment plus alpha segment), for every format and image.
C1_DataSizeIsBytesWritten ==
  \A n \in 1..Len(sink) : sink[n].k = "desc" => sink[n].size = Len(ArrayBytes)

\* C1 witness: an Indexed2 conversion of a 9 x 2 image wrote its descriptor.
C1_Witness ==
  /\ Finished /\ format = "Indexed2" /\ img.w = 9 /\ img.h = 2
  /\ Len(DescOut) = 1 /\ DescOut[1].size = 16 + 6

\* C2 (as claimed): once validate_format has found too many colours for an
\* indexed format, nothing is written, the output file is never created and
\* run returns that error.
C2_TooManyColorsAborts ==
  (format \in IndexedFormats /\ fmt_check.kind = "TooManyColors")
    => /\ sink = <<>>
       /\ file \notin {"new", "removed"}
       /\ pc = "done" => result = fmt_check

\* C3 (as claimed): when generate_c fails with NotImplemented for
\* TrueColorChroma, the sink has received nothing.
C3_ChromaLeavesNoOutput ==
  result.kind = "NotImplemented" => sink = <<>>

\* C4 (as claimed): with format Auto, an image with a pixel of alpha < 255
\* resolves to TrueColorAlpha and an image whose pixels are all opaque
\* resolves to TrueColor.
C4_AutoByPixelAlpha ==
  (args.format = "Auto" /\ format # "none")
    => /\ ~AllOpaque => format = "TrueColorAlpha"
       /\ AllOpaque => format = "TrueColor"

\* C4 (amended): with format Auto, an image whose colour type has an alpha
\* channel resolves to TrueColorAlpha (so does every image with a pixel of
\* alpha < 255), and an image whose colour type has none resolves to TrueColor.
C4_AutoByAlphaChannel ==
  (args.format = "Auto" /\ format # "none")
    => /\ HasAlpha(img.ct) => format = "TrueColorAlpha"
       /\ ~HasAlpha(img.ct) => format = "TrueColor"
       /\ ~AllOpaque => format = "TrueColorAlpha"

\* C4 witness: a fully opaque image with an alpha channel, converted with
\* Auto, was written as TrueColorAlpha.
C4_Witness ==
  /\ Finished /\ args.format = "Auto" /\ AllOpaque /\ HasAlpha(img.ct)
  /\ format = "TrueColorAlpha"

\* C5 (as claimed): for every bpp in {1,2,4,8} write_indexed stores, for
\* each pixel, the top bpp bits of its luma, MSB-first, bpp bits per pixel;
\* for bpp = 8 the stored byte is the luma.
C5_IndexedStoresTopBits ==
  (pc = "done" /\ result.kind \in {"Ok", "panic"} /\ format \in IndexedFormats)
    => DataBytes = ExpectedPacked(BitDepth(format))

\* C6: in write_indexed and write_alpha (bpp < 8) every row of w pixels at
\* depth b contributes ceil(w * b / 8) bytes, h * ceil(w * b / 8) in all,
\* and byte n holds bits of the pixels of its own row only.
C6_RowsAreByteAligned ==
  (Finished /\ format \in IndexedFormats \cup {"Alpha1", "Alpha2", "Alpha4"})
    => LET rb == RowBytes(img.w, BitDepth(format))
       IN  /\ Len(DataBytes) = img.h * rb
           /\ Len(prov) = img.h * rb
           /\ \A n \in 1..Len(prov) : prov[n] = {(n - 1) \div rb}

\* C6 witness: an Indexed1 conversion of a 9 x 2 image: each row fills one
\* byte and flushes a second, partial one.
C6_Witness ==
  /\ Finished /\ format = "Indexed1" /\ img.w = 9 /\ img.h = 2
  /\ Len(DataBytes) = 4 /\ prov = <<{0}, {0}, {1}, {1}>>

\* C7: the palette written by write_indexed has 2^bpp entries; entry i is
\* (v, v, v, 0xFF) with v = round(i * 255 / (2^bpp - 1)); entry 0 is black,
\* the last entry is white, and v is strictly increasing in i.
C7_Palette ==
  (pc = "done" /\ result.kind \in {"Ok", "panic"} /\ format \in IndexedFormats)
    => LET n == Pow2(BitDepth(format))
           pal == PaletteOut
       IN  /\ Len(pal) = n
           /\ \A k \in 1..n :
                LET v == Round((k - 1) * 255, n - 1)
                IN  pal[k].b = <<v, v, v, 255>>
           /\ pal[1].b = <<0, 0, 0, 255>>
           /\ pal[n].b = <<255, 255, 255, 255>>
           /\ \A k \in 1..(n - 1) : pal[k].b[1] < pal[k + 1].b[1]

\* C7 witness: an Indexed2 conversion wrote the palette 0, 85, 170, 255.
C7_Witness ==
  /\ Finished /\ format = "Indexed2"
  /\ Len(PaletteOut) = 4 /\ PaletteOut[2].b = <<85, 85, 85, 255>>
  /\ PaletteOut[3].b = <<170, 170, 170, 255>>

\* C8: write_true_color writes for each pixel, in row-major order, the value
\* (r >> 3) << 11 | (g >> 2) << 5 | (b >> 3) as two bytes, low byte first
\* unless big_endian; the 2 x 1 image red, green in little-endian gives
\* 0x00, 0xF8, 0xE0, 0x07.
C8_Rgb565 ==
  TrueColorDone
    => /\ Len(ArrayBytes) >= 2 * Len(img.px)
       /\ \A k \in 1..Len(img.px) :
            LET v == Field565(img.px[k])
            IN  /\ ArrayBytes[2 * k - 1] = IF args.big_endian THEN v \div 256 ELSE v % 256
                /\ ArrayBytes[2 * k] = IF args.big_endian THEN v % 256 ELSE v \div 256
       /\ (/\ format = "TrueColor" /\ ~args.big_endian
           /\ img.w = 2 /\ img.h = 1
           /\ img.px = <<Px(255, 0, 0, 255), Px(0, 255, 0, 255)>>)
            => ArrayBytes = <<0, 248, 224, 7>>

\* C8 witness: the 2 x 1 image red, green was written as little-endian TrueColor.
C8_Witness ==
  /\ TrueColorDone /\ format = "TrueColor" /\ ~args.big_endian
  /\ img.w = 2 /\ img.h = 1
  /\ img.px = <<Px(255, 0, 0, 255), Px(0, 255, 0, 255)>>
  /\ ArrayBytes = <<0, 248, 224, 7>>

\* C9 (as claimed): decoding the RGB565 bytes in the stated byte order and
\* re-expanding the fields gives channels within 4 (R, B) and 2 (G) of the source.
C9_RoundTripWithin4And2 ==
  TrueColorDone
    => \A k \in 1..Len(img.px) :
         /\ Abs(img.px[k].r - Decoded(k).r) <= 4
         /\ Abs(img.px[k].g - Decoded(k).g) <= 2
         /\ Abs(img.px[k].b - Decoded(k).b) <= 4

\* C9 (amended): the decoded channels never exceed the source and fall
\* short of it by at most 7 (R, B) and at most 3 (G).
C9_RoundTripWithin7And3 ==
  TrueColorDone
    => \A k \in 1..Len(img.px) :
         LET d == Decoded(k)
             p == img.px[k]
         IN  /\ d.r <= p.r /\ p.r - d.r <= 7
             /\ d.g <= p.g /\ p.g - d.g <= 3
             /\ d.b <= p.b /\ p.b - d.b <= 7

\* C9 witness: a written image has a pixel that loses 7 in R, one that
\* loses 3 in G and one that loses 7 in B.
C9_Witness ==
  /\ TrueColorDone
  /\ \E k \in 1..Len(img.px) : img.px[k].r - Decoded(k).r = 7
  /\ \E k \in 1..Len(img.px) : img.px[k].g - Decoded(k).g = 3
  /\ \E k \in 1..Len(img.px) : img.px[k].b - Decoded(k).b = 7

\* C10: for an indexed format of depth b, validate_format returns
\* TooManyColors{colors, 2^b, format} exactly when the image has more than
\* 2^b distinct RGB triples (alpha ignored); colors is the distinct count
\* when that is at most 257, and 257 beyond.
C10_TooManyColors ==
  (format \in IndexedFormats /\ fmt_check # None)
    => LET n == DistinctRGB
           max == Pow2(BitDepth(format))
       IN  /\ fmt_check.kind = "TooManyColors" <=> n > max
           /\ n > max => fmt_check = TooManyColors(IF n <= 257 THEN n ELSE 257, max, format)
           /\ n <= max => fmt_check = Ok

\* C10 witness: 17 distinct colours asked as Indexed4 gave colors = 17,
\* max_colors = 16.
C10_Witness ==
  /\ format = "Indexed4" /\ DistinctRGB = 17
  /\ fmt_check = TooManyColors(17, 16, "Indexed4")

\* the image with every alpha set to a
WithAlpha(i, a) == [i EXCEPT !.px = [k \in 1..Len(i.px) |-> [i.px[k] EXCEPT !.a = a]]]

\* ExpectedPacked for the image i
ExpectedPackedOf(i, b) ==
  LET rb == RowBytes(i.w, b)
      per == 8 \div b
      byte(y, j) ==
        LET term == [k \in 1..per |->
                       LET x == j * per + (k - 1)
                       IN  IF x < i.w
                           THEN (ToLuma(i.px[y * i.w + x + 1]) \div Pow2(8 - b)) * Pow2(8 - b * k)
                           ELSE 0]
        IN  SumTo(term, per)
  IN  [n \in 1..(i.h * rb) |-> byte((n - 1) \div rb, (n - 1) % rb)]

C12_ErrorLeavesNoPartialFile ==
  (pc = "done" /\ ~args.stdout /\ result # Ok) => file # "new"

\* C13 (as claimed): once validate_format has found the source too deep for a
\* narrow alpha format, nothing is written, the output file is never
\* created and run returns InvalidBitDepth{b, formatName}.
C13_InvalidBitDepthAborts ==
  (/\ format \in {"Alpha1", "Alpha2", "Alpha4"}
   /\ pc \notin {"validate_format"}
   /\ BitsPerPixel(img.ct) > 4 * BitDepth(format))
    => /\ fmt_check = InvalidBitDepth(BitDepth(format), format)
       /\ sink = <<>>
       /\ file \notin {"new", "removed"}
       /\ pc = "done" => result = fmt_check

\* the lines between the opening and the closing line of the array
ArrayLines ==
  LET open == CHOOSE n \in 1..Len(sink) : sink[n].k = "open"
      close == CHOOSE n \in 1..Len(sink) : sink[n].k = "close"
  IN  SubSeq(sink, open + 1, close - 1)

\* C14: for TrueColorAlpha the array is the RGB565 segment of 2*w*h bytes,
\* a separating line, then the alpha segment of w*h bytes, the alpha of each
\* pixel unchanged and in pixel order, no alpha byte before the last RGB
\* byte, and data_size is 3*w*h; for TrueColor there is no alpha segment and
\* data_size is 2*w*h.
C14_TrueColorSegments ==
  TrueColorDone
    => LET n == img.w * img.h
           sep == {k \in 1..Len(ArrayLines) : ArrayLines[k].k = "blank"}
       IN  /\ Len(DescOut) = 1
           /\ \A k \in 1..(2 * n) :
                ArrayBytes[k] = Rgb565Bytes(img.px[(k + 1) \div 2], args.big_endian)[2 - (k % 2)]
           /\ IF format = "TrueColorAlpha"
              THEN /\ Len(ArrayBytes) = 3 * n
                   /\ DescOut[1].size = 3 * n
                   /\ \A k \in 1..n : ArrayBytes[2 * n + k] = img.px[k].a
                   /\ Cardinality(sep) = 1
                   /\ \A k \in sep :
                        /\ Len(BytesOf(SubSeq(ArrayLines, 1, k - 1))) = 2 * n
                        /\ Len(BytesOf(SubSeq(ArrayLines, k + 1, Len(ArrayLines)))) = n
              ELSE /\ Len(ArrayBytes) = 2 * n
                   /\ DescOut[1].size = 2 * n
                   /\ sep = {}

\* C14 witness: a TrueColorAlpha output of two pixels of different alpha.
C14_Witness ==
  /\ TrueColorDone /\ format = "TrueColorAlpha" /\ Len(img.px) = 2
  /\ img.px[1].a = 255 /\ img.px[2].a = 128
  /\ Len(ArrayBytes) = 6 /\ ArrayBytes[5] = 255 /\ ArrayBytes[6] = 128

\* C15: the format that validate_format, generate_c and format_name receive
\* is never Auto: it is the requested format, or for Auto the TrueColor or
\* TrueColorAlpha that detect_format chose; the unreachable!() arm of
\* generate_c is never executed and the tag "auto" is never written.
C15_FormatIsConcrete ==
  /\ format # "Auto"
  /\ format # "none"
       => /\ format \in ColorFormat
          /\ args.format # "Auto" => format = args.format
          /\ args.format = "Auto" => format \in {"TrueColor", "TrueColorAlpha"}
  /\ pc \in {"validate_format", "open", "header", "body", "failed"} => format # "none"
  /\ \A k \in 1..Len(sink) : sink[k].cf # "auto"
  /\ result = Panic => format = "Indexed8"

\* C15 witness: a run asked for Auto has written its descriptor with the tag
\* of a concrete format.
C15_Witness ==
  /\ Finished /\ args.format = "Auto" /\ format = "TrueColorAlpha"
  /\ Len(DescOut) = 1 /\ DescOut[1].cf = "LV_COLOR_FORMAT_RGB565A8"

\* the validations run() makes before it opens its sink
ValidationsOf(a) ==
  IF a.stdout THEN <<"input", "dimensions">> ELSE <<"input", "output", "dimensions">>

\* the errors of src/src/validation.rs
ValidationErrors ==
  {"FileNotFound", "FileNotReadable", "FileSizeTooLarge", "InvalidPngHeader",
   "OutputExists", "OutputNotWritable", "InvalidOutputFilename",
   "DimensionsTooSmall", "DimensionsTooLarge"}

\* C16: the sink is created and an encoder is invoked only after
\* validate_input_file, validate_output_path (file mode only) and
\* validate_dimensions have succeeded, in that order, so the encoders only
\* see 1 <= w <= 8192 and 1 <= h <= 8192; when a validation fails, no output
\* file is created, truncated or removed and nothing is written.
C16_ValidatedBeforeOutput ==
  /\ (\/ pc \in {"header", "body", "failed"}
      \/ file \in {"new", "removed"}
      \/ sink # <<>>)
       => /\ passed = ValidationsOf(args)
          /\ 1 <= img.w /\ img.w <= MAX_WIDTH
          /\ 1 <= img.h /\ img.h <= MAX_HEIGHT
  /\ (pc = "done" /\ result.kind \in ValidationErrors)
       => /\ file \in {"unknown", "absent", "old"}
          /\ sink = <<>>
          /\ Len(passed) < Len(ValidationsOf(args))
          /\ \A k \in 1..Len(passed) : passed[k] = ValidationsOf(args)[k]

\* C16 witness: an encoder is about to run on a created output file after
\* the three validations.
C16_Witness ==
  /\ pc = "body" /\ ~args.stdout /\ file = "new"
  /\ passed = <<"input", "output", "dimensions">>
  /\ img.w = MaxWide /\ img.h = MaxRows

====
